---- MODULE Spec2Model ----
(***************************************************************************)
(* Model of Convert/pdf_to_obsidian_converter.py: RecipeExtractor, which   *)
(* turns recipe PDFs into Obsidian markdown notes.  Text is modelled as a  *)
(* sequence of one-character strings so that the regular expressions of    *)
(* the source are computed character by character.                         *)
(***************************************************************************)
EXTENDS Integers, Sequences, FiniteSets, TLC

VARIABLES
    pc,           \* position of the running operation
    directory,    \* process_all_pdfs: the directory argument
    listing,      \* process_all_pdfs: what glob.glob returned, in its order
    pdf_files,    \* process_all_pdfs: the list being iterated
    cur,          \* process_all_pdfs: index in pdf_files of the document in hand
    successful,   \* process_all_pdfs: tally
    failed,       \* process_all_pdfs: tally
    fs,           \* the output directory: whether it exists, and its files
    PDF_LIBRARY,  \* the extraction library the module imported
    log,          \* what the logger was given since the document in hand began
    doc,          \* the document a text was laid out from (parser inputs)
    text,         \* raw text of the document in hand
    recipe_data,  \* the record parse_recipe_data returned
    tags,         \* what generate_tags returned
    markdown,     \* what create_markdown returned
    title,        \* argument of sanitize_filename
    sanitized,    \* sanitize_filename(title)
    resanitized   \* sanitize_filename(sanitized)

vars == <<pc, PDF_LIBRARY, directory, listing, pdf_files, cur, successful, failed, fs, log,
          doc, text, recipe_data, tags, markdown, title, sanitized, resanitized>>

batchVars == <<PDF_LIBRARY, directory, listing, pdf_files, cur, successful, failed, fs, log>>

None == "None"

----
(* Characters and character classes of Python's re module (ASCII range). *)

UpperCase == <<"A","B","C","D","E","F","G","H","I","J","K","L","M","N","O","P","Q","R","S","T","U","V","W","X","Y","Z">>
LowerCase == <<"a","b","c","d","e","f","g","h","i","j","k","l","m","n","o","p","q","r","s","t","u","v","w","x","y","z">>
Digits == <<"0","1","2","3","4","5","6","7","8","9">>

Range(s) == {s[k] : k \in 1..Len(s)}

IsUpper(c) == c \in Range(UpperCase)
IsLower(c) == c \in Range(LowerCase)
IsAlpha(c) == IsUpper(c) \/ IsLower(c)
IsDigit(c) == c \in Range(Digits)
\* \s
IsSpace(c) == c \in {" ", "\t", "\n", "\r", "\f"}
\* \w, buggy variant: the underscore is not a word character
IsWordNoUnderscore(c) == IsAlpha(c) \/ IsDigit(c)
\* \w
IsWord(c) == IsAlpha(c) \/ IsDigit(c) \/ c = "_"

\* str.lower() on one character
LowerChar(c) ==
    IF IsUpper(c) THEN LowerCase[CHOOSE k \in 1..26 : UpperCase[k] = c] ELSE c

\* str.lower()
Lower(s) == [k \in 1..Len(s) |-> LowerChar(s[k])]

\* s[a:b] of Python with 0 <= a, as a 1-based SubSeq
Slice(s, a, b) == SubSeq(s, a + 1, IF b > Len(s) THEN Len(s) ELSE b)

\* str.lstrip() / str.rstrip() / str.strip() with no argument: whitespace
LStrip(s) ==
    LET keep == {k \in 1..Len(s) : ~IsSpace(s[k])}
    IN  IF keep = {} THEN <<>> ELSE SubSeq(s, CHOOSE k \in keep : \A j \in keep : k <= j, Len(s))

RStrip(s) ==
    LET keep == {k \in 1..Len(s) : ~IsSpace(s[k])}
    IN  IF keep = {} THEN <<>> ELSE SubSeq(s, 1, CHOOSE k \in keep : \A j \in keep : k >= j)

Strip(s) == LStrip(RStrip(s))

\* str.rstrip(c)
RStripChar(s, c) ==
    LET keep == {k \in 1..Len(s) : s[k] # c}
    IN  IF keep = {} THEN <<>> ELSE SubSeq(s, 1, CHOOSE k \in keep : \A j \in keep : k >= j)

\* re.sub(r"\s+", " ", s): the first character of every run of whitespace
\* becomes a space and the rest of the run goes
CollapseWhitespace(s) ==
    LET Gone == "gone"
        marked == [k \in 1..Len(s) |->
                     IF ~IsSpace(s[k]) THEN s[k]
                     ELSE IF k > 1 /\ IsSpace(s[k - 1]) THEN Gone
                     ELSE " "]
    IN  SelectSeq(marked, LAMBDA c : c # Gone)

\* str.replace(a, b) for a single character a
ReplaceChar(s, a, b) == [k \in 1..Len(s) |-> IF s[k] = a THEN b ELSE s[k]]

\* s.startswith(p)
StartsWith(s, p) == Len(s) >= Len(p) /\ SubSeq(s, 1, Len(p)) = p

\* p occurs in s at 1-based position k
OccursAt(s, p, k) == k >= 1 /\ k + Len(p) - 1 <= Len(s) /\ SubSeq(s, k, k + Len(p) - 1) = p

\* p in s
Contains(s, p) == \E k \in 1..(Len(s) - Len(p) + 1) : OccursAt(s, p, k)

\* str(n) for n >= 0
RECURSIVE IntToStr(_)
IntToStr(n) == IF n < 10 THEN <<Digits[n + 1]>> ELSE IntToStr(n \div 10) \o <<Digits[(n % 10) + 1]>>

DigitValue(c) == (CHOOSE k \in 1..10 : Digits[k] = c) - 1

\* int(s) for a string of decimal digits
RECURSIVE StrToInt(_)
StrToInt(s) ==
    IF s = <<>> THEN 0 ELSE 10 * StrToInt(SubSeq(s, 1, Len(s) - 1)) + DigitValue(s[Len(s)])

----
(* sanitize_filename *)

\* the characters of the class [<>:"/\\|?*]
IllegalChars == {"<", ">", ":", "\"", "/", "\\", "|", "?", "*"}

\* the length limit of a file name
MaxFilenameLen == 50

DefaultFilename == <<"r","e","c","i","p","e">>

\* mutant: the second substitution also deletes underscores
sanitize_filename_no_underscore(t) ==
    LET s1 == SelectSeq(t, LAMBDA c : c \notin IllegalChars)
        s2 == SelectSeq(s1, LAMBDA c : IsWordNoUnderscore(c) \/ IsSpace(c) \/ c = "-")
        s3 == Strip(CollapseWhitespace(s2))
        s4 == ReplaceChar(s3, " ", "_")
        s5 == IF Len(s4) > MaxFilenameLen
              THEN RStripChar(Slice(s4, 0, MaxFilenameLen), "_")
              ELSE s4
    IN  IF s5 = <<>> THEN DefaultFilename ELSE s5

sanitize_filename(t) ==
    LET s1 == SelectSeq(t, LAMBDA c : c \notin IllegalChars)
        s2 == SelectSeq(s1, LAMBDA c : IsWord(c) \/ IsSpace(c) \/ c = "-")
        s3 == Strip(CollapseWhitespace(s2))
        s4 == ReplaceChar(s3, " ", "_")
        s5 == IF Len(s4) > MaxFilenameLen
              THEN RStripChar(Slice(s4, 0, MaxFilenameLen), "_")
              ELSE s4
    IN  IF s5 = <<>> THEN DefaultFilename ELSE s5

----
(* parse_recipe_data.  Every pattern is searched on the lower-cased text    *)
(* (re.IGNORECASE) and the groups are cut from the text itself.             *)

\* the character U+2022 (bullet), which a TLA+ string cannot hold
Bullet == "U+2022"

Min(S) == CHOOSE x \in S : \A y \in S : x <= y
Max(S) == CHOOSE x \in S : \A y \in S : x >= y

\* the first position >= from where p occurs in s, 0 when there is none
Find(s, p, from) ==
    LET at == {k \in from..(Len(s) - Len(p) + 1) : OccursAt(s, p, k)}
    IN  IF at = {} THEN 0 ELSE Min(at)

\* the first position >= k of s that holds no whitespace, Len(s) + 1 when none
SkipSpaces(s, k) ==
    LET at == {j \in k..Len(s) : ~IsSpace(s[j])}
    IN  IF at = {} THEN Len(s) + 1 ELSE Min(at)

\* the last position of the longest run of TRUE in the sequence ok that starts
\* at k; k - 1 when ok[k] is FALSE
RunEnd(ok, k) ==
    LET stop == {j \in k..Len(ok) : ~ok[j]}
    IN  IF stop = {} THEN Len(ok) ELSE Min(stop) - 1

\* the end of the run of \d that starts at k
DigitRunEnd(s, k) == RunEnd([j \in 1..Len(s) |-> IsDigit(s[j])], k)

\* \d+\. matches at k
NumberDotAt(s, k) ==
    /\ k >= 1 /\ k <= Len(s) /\ IsDigit(s[k])
    /\ LET r == DigitRunEnd(s, k) IN r + 1 <= Len(s) /\ s[r + 1] = "."

\* [^.!?\n]
NotSentenceEnd(c) == c \notin {".", "!", "?", "\n"}

\* the end of the run of [^.!?\n] that starts at k
SentenceRunEnd(s, k) == RunEnd([j \in 1..Len(s) |-> NotSentenceEnd(s[j])], k)

\* the end of the run of [a-z\s], case ignored, that starts at k
LetterSpaceRunEnd(s, k) == RunEnd([j \in 1..Len(s) |-> IsAlpha(s[j]) \/ IsSpace(s[j])], k)

\* [•\-\*\d]
IsBullet(c) == c \in {Bullet, "-", "*"} \/ IsDigit(c)

\* the end of the run of [•\-\*\d] that starts at k
BulletRunEnd(s, k) == RunEnd([j \in 1..Len(s) |-> IsBullet(s[j])], k)

title_keywords_meal ==
    <<<<"b","r","e","a","k","f","a","s","t">>, <<"l","u","n","c","h">>, <<"d","i","n","n","e","r">>, <<"p","i","z","z","a">>, <<"s","a","n","d","w","i","c","h">>, <<"b","u","r","r","i","t","o">>, <<"b","a","g","e","l">>,
      <<"w","a","f","f","l","e">>, <<"p","a","n","c","a","k","e">>, <<"s","a","l","a","d">>, <<"b","o","w","l">>, <<"p","l","a","t","e">>, <<"w","r","a","p">>>>

title_keywords_protein == <<<<"c","h","i","c","k","e","n">>, <<"t","u","r","k","e","y">>, <<"b","e","e","f">>, <<"p","o","r","k">>, <<"f","i","s","h">>>>

common_name_keywords ==
    <<<<"b","u","r","r","i","t","o">>, <<"p","i","z","z","a">>, <<"s","a","n","d","w","i","c","h">>, <<"b","a","g","e","l">>, <<"w","a","f","f","l","e">>, <<"p","a","n","c","a","k","e">>, <<"s","a","l","a","d">>,
      <<"b","o","w","l">>, <<"p","l","a","t","e">>>>

\* one of the keywords occurs in the lower-cased text low at k
KeywordAt(low, keywords, k) == \E w \in 1..Len(keywords) : OccursAt(low, keywords[w], k)

\* the positions of the lower-cased text low where one of the keywords occurs
KeywordPositions(low, keywords) == {k \in 1..Len(low) : KeywordAt(low, keywords, k)}

\* group 1 of the first title pattern, None when it does not match:
\* a letter, then anything up to a sentence end with a meal keyword in it
TitlePattern1(t) ==
    LET found == KeywordPositions(Lower(t), title_keywords_meal)
        at == {k \in 1..Len(t) :
                 /\ IsAlpha(t[k])
                 /\ \E j \in found : k + 1 <= j /\ j <= SentenceRunEnd(t, k + 1)}
    IN  IF at = {} THEN None
        ELSE SubSeq(t, Min(at), SentenceRunEnd(t, Min(at) + 1))

\* group 1 of the second title pattern: a letter, letters and spaces, a protein
\* keyword, then anything up to a sentence end
TitlePattern2(t) ==
    LET found == KeywordPositions(Lower(t), title_keywords_protein)
        at == {k \in 1..Len(t) :
                 /\ IsAlpha(t[k])
                 /\ \E j \in found : k + 2 <= j /\ j <= LetterSpaceRunEnd(t, k + 1) + 1}
    IN  IF at = {} THEN None
        ELSE SubSeq(t, Min(at), SentenceRunEnd(t, Min(at) + 1))

TitleMinRun == 10
TitleMaxRun == 50

\* group 1 of the third title pattern: at the start of the text, a letter and
\* 10 to 50 characters that end no sentence
TitlePattern3(t) ==
    IF t # <<>> /\ IsAlpha(t[1]) /\ SentenceRunEnd(t, 2) - 1 >= TitleMinRun
    THEN SubSeq(t, 1, Min({SentenceRunEnd(t, 2), 1 + TitleMaxRun}))
    ELSE None

\* re.sub(r"^[0-9]+\.?\s*", "", s), also written r"^\d+\.?\s*"
StripNumberPrefix(s) ==
    IF s # <<>> /\ IsDigit(s[1])
    THEN LET r == DigitRunEnd(s, 1)
             d == IF r + 1 <= Len(s) /\ s[r + 1] = "." THEN r + 1 ELSE r
         IN  SubSeq(s, SkipSpaces(s, d + 1), Len(s))
    ELSE s

\* re.sub(r"^[•\-\*\d]+\.?\s*", "", s)
StripBulletPrefix(s) ==
    IF s # <<>> /\ IsBullet(s[1])
    THEN LET r == BulletRunEnd(s, 1)
             d == IF r + 1 <= Len(s) /\ s[r + 1] = "." THEN r + 1 ELSE r
         IN  SubSeq(s, SkipSpaces(s, d + 1), Len(s))
    ELSE s

imperative_verbs == <<<<"t","h","r","o","w">>, <<"a","d","d">>, <<"c","o","o","k">>, <<"p","l","a","c","e">>>>

MinTitleLen == 5

\* the title a pattern's group gives, None when the group is rejected
TitleCandidate(group) ==
    IF group = None THEN None
    ELSE LET potential_title == StripNumberPrefix(Strip(group))
         IN  IF /\ Len(potential_title) > MinTitleLen
                /\ ~\E v \in 1..Len(imperative_verbs) :
                       StartsWith(Lower(potential_title), imperative_verbs[v])
             THEN potential_title
             ELSE None

\* [A-Za-z\s.]
NameChar(c) == IsAlpha(c) \/ IsSpace(c) \/ c = "."

\* the end of the run of [A-Za-z\s.] that starts at k
NameRunEnd(s, k) == RunEnd([j \in 1..Len(s) |-> NameChar(s[j])], k)

\* common_names[0].strip(): the first match of the common recipe name pattern,
\* <<>> when there is none
CommonName(t) ==
    LET low == Lower(t)
        found == KeywordPositions(low, common_name_keywords)
        Ends(k) == {j \in found : k + 1 <= j /\ j <= NameRunEnd(t, k) + 1}
        at == {k \in 1..Len(t) : NameChar(t[k]) /\ Ends(k) # {}}
    IN  IF at = {} THEN <<>>
        ELSE LET k == Min(at)
                 j == Max(Ends(k))
                 w == CHOOSE w \in 1..Len(common_name_keywords) :
                          OccursAt(low, common_name_keywords[w], j)
             IN  Strip(SubSeq(t, k, j + Len(common_name_keywords[w]) - 1))

ExtractTitle(t) ==
    LET c1 == TitleCandidate(TitlePattern1(t))
        c2 == TitleCandidate(TitlePattern2(t))
        c3 == TitleCandidate(TitlePattern3(t))
    IN  IF c1 # None THEN c1
        ELSE IF c2 # None THEN c2
        ELSE IF c3 # None THEN c3
        ELSE CommonName(t)

\* group 1 of r"(\d+)\s*calories", <<>> when there is no match
ExtractCalories(t) ==
    LET low == Lower(t)
        at == {k \in 1..Len(t) :
                 IsDigit(t[k])
                 /\ OccursAt(low, <<"c","a","l","o","r","i","e","s">>, SkipSpaces(t, DigitRunEnd(t, k) + 1))}
    IN  IF at = {} THEN <<>> ELSE SubSeq(t, Min(at), DigitRunEnd(t, Min(at)))

\* r"grams?\s*of\s*protein" matches the lower-cased text at k
GramsOfProteinAt(low, k) ==
    /\ OccursAt(low, <<"g","r","a","m">>, k)
    /\ LET g == IF k + 4 <= Len(low) /\ low[k + 4] = "s" THEN k + 5 ELSE k + 4
           Rest(from) ==
               LET o == SkipSpaces(low, from)
               IN  OccursAt(low, <<"o","f">>, o) /\ OccursAt(low, <<"p","r","o","t","e","i","n">>, SkipSpaces(low, o + 2))
       IN  Rest(g) \/ Rest(k + 4)

\* group 1 of r"(\d+)\s*grams?\s*of\s*protein", <<>> when there is no match
ExtractProtein(t) ==
    LET low == Lower(t)
        at == {k \in 1..Len(t) :
                 IsDigit(t[k])
                 /\ GramsOfProteinAt(low, SkipSpaces(t, DigitRunEnd(t, k) + 1))}
    IN  IF at = {} THEN <<>> ELSE SubSeq(t, Min(at), DigitRunEnd(t, Min(at)))

\* group 1 of r"<start>\s*(.*?)(?:<stop>|$)": the text after the first start
\* marker and the whitespace behind it, up to the next stop marker or the end;
\* None when there is no start marker
SectionAfter(t, start, stop) ==
    LET low == Lower(t)
        k == Find(low, start, 1)
    IN  IF k = 0 THEN None
        ELSE LET from == SkipSpaces(t, k + Len(start))
                 to == Find(low, stop, from)
             IN  SubSeq(t, from, IF to = 0 THEN Len(t) ELSE to - 1)

\* group 1 of r"PRO TIP[S]?\s*(.*?)$"
ProTipsText(t) ==
    LET low == Lower(t)
        k == Find(low, <<"p","r","o"," ","t","i","p">>, 1)
    IN  IF k = 0 THEN None
        ELSE LET s == IF k + 7 <= Len(t) /\ low[k + 7] = "s" THEN k + 8 ELSE k + 7
             IN  SubSeq(t, SkipSpaces(t, s), Len(t))

\* str.split(sep) for a single character sep
RECURSIVE Split(_, _)
Split(s, sep) ==
    LET at == {k \in 1..Len(s) : s[k] = sep}
    IN  IF at = {} THEN <<s>>
        ELSE <<SubSeq(s, 1, Min(at) - 1)>> \o Split(SubSeq(s, Min(at) + 1, Len(s)), sep)

\* the ingredient a line of the ingredients section gives, None when it is skipped
IngredientOfLine(raw) ==
    LET line == Strip(raw)
    IN  IF line # <<>> /\ ~StartsWith(Lower(line), <<"d","i","r","e","c","t","i","o","n","s">>)
                       /\ ~StartsWith(Lower(line), <<"p","r","o"," ","t","i","p">>)
        THEN LET cleaned == StripBulletPrefix(line)
             IN  IF cleaned # <<>> THEN cleaned ELSE None
        ELSE None

\* the entries of a list that are not None, in order
Kept(list) == SelectSeq(list, LAMBDA x : x # None)

ExtractIngredients(t) ==
    LET ingredients_text == SectionAfter(t, <<"i","n","g","r","e","d","i","e","n","t","s">>, <<"d","i","r","e","c","t","i","o","n","s">>)
    IN  IF ingredients_text = None THEN <<>>
        ELSE LET lines == Split(ingredients_text, "\n")
             IN  Kept([k \in 1..Len(lines) |-> IngredientOfLine(lines[k])])

\* re.findall(r"(\d+\..*?)(?=\d+\.|$)", s, re.DOTALL), searching from position from
RECURSIVE NumberedSegments(_, _)
NumberedSegments(s, from) ==
    LET starts == {k \in from..Len(s) : NumberDotAt(s, k)}
    IN  IF starts = {} THEN <<>>
        ELSE LET k == Min(starts)
                 body == DigitRunEnd(s, k) + 2
                 nexts == {j \in body..Len(s) : NumberDotAt(s, j)}
                 stop == IF nexts = {} THEN Len(s) + 1 ELSE Min(nexts)
             IN  <<SubSeq(s, k, stop - 1)>> \o NumberedSegments(s, stop)

\* the list entry a numbered segment gives, None when it is skipped
StepOfSegment(raw) ==
    LET step == Strip(raw)
    IN  IF step # <<>> THEN Strip(StripNumberPrefix(step)) ELSE None

StepsOfText(section) ==
    IF section = None THEN <<>>
    ELSE LET steps == NumberedSegments(section, 1)
         IN  Kept([k \in 1..Len(steps) |-> StepOfSegment(steps[k])])

ExtractDirections(t) == StepsOfText(SectionAfter(t, <<"d","i","r","e","c","t","i","o","n","s">>, <<"p","r","o"," ","t","i","p">>))

ExtractProTips(t) == StepsOfText(ProTipsText(t))

\* re.sub(r"\s+", " ", text.strip())
CleanText(raw) == CollapseWhitespace(Strip(raw))

parse_recipe_data(raw) ==
    LET t == CleanText(raw)
    IN  [title |-> ExtractTitle(t),
         calories |-> ExtractCalories(t),
         protein |-> ExtractProtein(t),
         ingredients |-> ExtractIngredients(t),
         directions |-> ExtractDirections(t),
         pro_tips |-> ExtractProTips(t)]

----
(* generate_tags *)

\* self.ingredient_tags: tag -> keywords
ingredient_tags == <<
    <<<<"c","h","i","c","k","e","n">>, <<<<"c","h","i","c","k","e","n">>, <<"c","h","i","c","k","e","n"," ","b","r","e","a","s","t">>, <<"c","h","i","c","k","e","n"," ","t","e","n","d","e","r">>>> >>,
    <<<<"t","u","r","k","e","y">>, <<<<"t","u","r","k","e","y">>, <<"t","u","r","k","e","y"," ","b","a","c","o","n">>, <<"t","u","r","k","e","y"," ","s","a","u","s","a","g","e">>, <<"t","u","r","k","e","y"," ","c","h","o","r","i","z","o">>,
                   <<"t","u","r","k","e","y"," ","p","e","p","p","e","r","o","n","i">>>> >>,
    <<<<"b","e","e","f">>, <<<<"b","e","e","f">>, <<"g","r","o","u","n","d"," ","b","e","e","f">>, <<"s","t","e","a","k">>>> >>,
    <<<<"p","o","r","k">>, <<<<"p","o","r","k">>, <<"b","a","c","o","n">>, <<"h","a","m">>>> >>,
    <<<<"f","i","s","h">>, <<<<"f","i","s","h">>, <<"s","a","l","m","o","n">>, <<"t","u","n","a">>, <<"c","o","d">>>> >>,
    <<<<"e","g","g">>, <<<<"e","g","g">>, <<"e","g","g"," ","w","h","i","t","e">>, <<"e","g","g","s">>>> >>,
    <<<<"b","r","e","a","k","f","a","s","t">>, <<<<"b","r","e","a","k","f","a","s","t">>, <<"b","a","g","e","l">>, <<"w","a","f","f","l","e">>, <<"p","a","n","c","a","k","e">>, <<"b","u","r","r","i","t","o">>,
                      <<"s","c","r","a","m","b","l","e">>>> >>,
    <<<<"l","u","n","c","h">>, <<<<"l","u","n","c","h">>, <<"s","a","n","d","w","i","c","h">>, <<"w","r","a","p">>, <<"s","a","l","a","d">>>> >>,
    <<<<"d","i","n","n","e","r">>, <<<<"d","i","n","n","e","r">>, <<"p","a","s","t","a">>, <<"r","i","c","e">>, <<"s","t","i","r"," ","f","r","y">>>> >>,
    <<<<"s","n","a","c","k">>, <<<<"s","n","a","c","k">>, <<"b","a","r">>, <<"b","i","t","e">>, <<"b","a","l","l">>>> >>,
    <<<<"p","i","z","z","a">>, <<<<"p","i","z","z","a">>, <<"f","l","a","t","b","r","e","a","d">>, <<"p","i","t","a">>>> >>,
    <<<<"p","a","s","t","a">>, <<<<"p","a","s","t","a">>, <<"n","o","o","d","l","e">>, <<"s","p","a","g","h","e","t","t","i">>, <<"p","e","n","n","e">>>> >>,
    <<<<"s","a","n","d","w","i","c","h">>, <<<<"s","a","n","d","w","i","c","h">>, <<"s","u","b">>, <<"h","o","a","g","i","e">>>> >>,
    <<<<"b","u","r","r","i","t","o">>, <<<<"b","u","r","r","i","t","o">>, <<"w","r","a","p">>, <<"t","o","r","t","i","l","l","a">>>> >>,
    <<<<"b","a","g","e","l">>, <<<<"b","a","g","e","l">>>> >>,
    <<<<"w","a","f","f","l","e">>, <<<<"w","a","f","f","l","e">>>> >>,
    <<<<"p","a","n","c","a","k","e">>, <<<<"p","a","n","c","a","k","e">>>> >>,
    <<<<"s","a","l","a","d">>, <<<<"s","a","l","a","d">>, <<"b","o","w","l">>>> >>,
    <<<<"a","i","r","f","r","y","e","r">>, <<<<"a","i","r"," ","f","r","y","e","r">>, <<"a","i","r","f","r","y","e","r">>>> >>,
    <<<<"b","a","k","e","d">>, <<<<"b","a","k","e","d">>, <<"o","v","e","n">>, <<"b","r","o","i","l">>>> >>,
    <<<<"g","r","i","l","l","e","d">>, <<<<"g","r","i","l","l","e","d">>, <<"g","r","i","l","l">>>> >>,
    <<<<"l","o","w","c","a","r","b">>, <<<<"l","o","w"," ","c","a","r","b">>, <<"k","e","t","o">>, <<"c","a","r","b"," ","b","a","l","a","n","c","e">>>> >>,
    <<<<"h","i","g","h","p","r","o","t","e","i","n">>, <<<<"p","r","o","t","e","i","n">>, <<"h","i","g","h"," ","p","r","o","t","e","i","n">>>> >>,
    <<<<"f","a","t","f","r","e","e">>, <<<<"f","a","t"," ","f","r","e","e">>, <<"f","a","t","-","f","r","e","e">>>> >> >>

\* sep.join(parts)
RECURSIVE Join(_, _)
Join(sep, parts) ==
    IF parts = <<>> THEN <<>>
    ELSE IF Len(parts) = 1 THEN parts[1]
    ELSE parts[1] \o sep \o Join(sep, Tail(parts))

\* the text generate_tags analyses
AllText(rd) ==
    Lower(Join(<<" ">>, <<rd.title, Join(<<" ">>, rd.ingredients), Join(<<" ">>, rd.directions)>>))

\* the tags whose keyword list has a keyword occurring in all_text
KeywordTags(all_text) ==
    {ingredient_tags[k][1] : k \in
        {j \in 1..Len(ingredient_tags) :
            \E w \in 1..Len(ingredient_tags[j][2]) :
                Contains(all_text, Lower(ingredient_tags[j][2][w]))}}

LowCalorieLimit == 300
HighCalorieLimit == 500
HighProteinLimit == 40

\* mutant: the calorie comparisons include the limits
CalorieTagsInclusive(rd) ==
    IF rd.calories = <<>> THEN {}
    ELSE IF StrToInt(rd.calories) <= LowCalorieLimit THEN {<<"l","o","w","c","a","l","o","r","i","e">>}
    ELSE IF StrToInt(rd.calories) >= HighCalorieLimit THEN {<<"h","i","g","h","c","a","l","o","r","i","e">>}
    ELSE {}

CalorieTags(rd) ==
    IF rd.calories = <<>> THEN {}
    ELSE IF StrToInt(rd.calories) < LowCalorieLimit THEN {<<"l","o","w","c","a","l","o","r","i","e">>}
    ELSE IF StrToInt(rd.calories) > HighCalorieLimit THEN {<<"h","i","g","h","c","a","l","o","r","i","e">>}
    ELSE {}

ProteinTags(rd) ==
    IF rd.protein # <<>> /\ StrToInt(rd.protein) > HighProteinLimit
    THEN {<<"h","i","g","h","p","r","o","t","e","i","n">>} ELSE {}

\* order of two characters by code point (tags are lower-case letters)
CharCode(c) == CHOOSE k \in 1..26 : LowerCase[k] = c

\* a < b for str
RECURSIVE StrLess(_, _)
StrLess(a, b) ==
    IF b = <<>> THEN FALSE
    ELSE IF a = <<>> THEN TRUE
    ELSE IF Head(a) = Head(b) THEN StrLess(Tail(a), Tail(b))
    ELSE CharCode(Head(a)) < CharCode(Head(b))

\* sorted(list(S)) for a set of str
RECURSIVE Sorted(_)
Sorted(S) ==
    IF S = {} THEN <<>>
    ELSE LET least == CHOOSE x \in S : \A y \in S \ {x} : StrLess(x, y)
         IN  <<least>> \o Sorted(S \ {least})

\* mutant: the sentinel is added whatever the other tags
generate_tags_always_sentinel(rd) ==
    Sorted(KeywordTags(AllText(rd)) \cup CalorieTags(rd) \cup ProteinTags(rd) \cup {<<"r","e","c","i","p","e">>})

generate_tags(rd) ==
    LET found == KeywordTags(AllText(rd)) \cup CalorieTags(rd) \cup ProteinTags(rd)
    IN  Sorted(IF found = {} THEN {<<"r","e","c","i","p","e">>} ELSE found)

----
(* create_markdown *)

\* the concatenation of the strings of a list
RECURSIVE Concat(_)
Concat(parts) == IF parts = <<>> THEN <<>> ELSE Head(parts) \o Concat(Tail(parts))

NL == <<"\n">>

\* "- {item}\n" for every item
BulletLines(items) == Concat([k \in 1..Len(items) |-> <<"-"," ">> \o items[k] \o NL])

\* mutant: every direction is numbered 1
NumberedLinesAllOne(items) ==
    Concat([k \in 1..Len(items) |-> IntToStr(1) \o <<"."," ">> \o items[k] \o NL])

\* "{i}. {direction}\n" for i, direction in enumerate(directions, 1)
NumberedLines(items) ==
    Concat([k \in 1..Len(items) |-> IntToStr(k) \o <<"."," ">> \o items[k] \o NL])

NutritionSection(rd) ==
    IF rd.calories # <<>> \/ rd.protein # <<>>
    THEN <<"#","#"," ","N","u","t","r","i","t","i","o","n"," ","I","n","f","o","r","m","a","t","i","o","n","\n","\n">>
         \o (IF rd.calories # <<>> THEN <<"-"," ","*","*","C","a","l","o","r","i","e","s",":","*","*"," ">> \o rd.calories \o NL ELSE <<>>)
         \o (IF rd.protein # <<>> THEN <<"-"," ","*","*","P","r","o","t","e","i","n",":","*","*"," ">> \o rd.protein \o <<"g","\n">> ELSE <<>>)
         \o NL
    ELSE <<>>

IngredientsSection(rd) ==
    IF rd.ingredients # <<>>
    THEN <<"#","#"," ","I","n","g","r","e","d","i","e","n","t","s","\n","\n">> \o BulletLines(rd.ingredients) \o NL
    ELSE <<>>

DirectionsSection(rd) ==
    IF rd.directions # <<>>
    THEN <<"#","#"," ","D","i","r","e","c","t","i","o","n","s","\n","\n">> \o NumberedLines(rd.directions) \o NL
    ELSE <<>>

ProTipsSection(rd) ==
    IF rd.pro_tips # <<>>
    THEN <<"#","#"," ","P","r","o"," ","T","i","p","s","\n","\n">> \o BulletLines(rd.pro_tips) \o NL
    ELSE <<>>

\* " ".join([f"#{tag}" for tag in tags])
TagString(tagList) == Join(<<" ">>, [k \in 1..Len(tagList) |-> <<"#">> \o tagList[k]])

create_markdown(rd) ==
    <<"#"," ">> \o rd.title \o <<"\n","\n">>
    \o TagString(generate_tags(rd)) \o <<"\n","\n">>
    \o NutritionSection(rd)
    \o IngredientsSection(rd)
    \o DirectionsSection(rd)
    \o ProTipsSection(rd)

----
(* Paths, extract_text_from_pdf and the helpers of process_pdf_file and       *)
(* process_all_pdfs.                                                          *)

\* os.path.join(a, b) for a relative b
PathJoin(a, b) == IF a = <<>> \/ a[Len(a)] = "/" THEN a \o b ELSE a \o <<"/">> \o b

\* os.path.basename(p)
Basename(p) ==
    LET seps == {k \in 1..Len(p) : p[k] = "/"}
    IN  IF seps = {} THEN p ELSE SubSeq(p, Max(seps) + 1, Len(p))

\* os.path.splitext(p)[0]: p without the extension of its last component; a
\* component made of leading dots only has no extension
SplitExtRoot(p) ==
    LET seps == {k \in 1..Len(p) : p[k] = "/"}
        name == IF seps = {} THEN 1 ELSE Max(seps) + 1
        dots == {k \in name..Len(p) : p[k] = "."}
    IN  IF dots # {} /\ \E k \in name..(Max(dots) - 1) : p[k] # "."
        THEN SubSeq(p, 1, Max(dots) - 1)
        ELSE p

\* str.replace(old, new)
RECURSIVE Replace(_, _, _)
Replace(s, old, new) ==
    LET k == Find(s, old, 1)
    IN  IF k = 0 THEN s
        ELSE SubSeq(s, 1, k - 1) \o new \o Replace(SubSeq(s, k + Len(old), Len(s)), old, new)

\* the fixed part of the names glob.glob is asked for
input_name_prefix == <<"T","a","s","t","y"," ","S","h","r","e","d","s"," ","J","a","n","-","F","e","b","-","M","a","r","c","h","_","P","a","r","t">>

\* the path of the input file whose name has suffix where the pattern has *
PdfPath(dir, suffix) == PathJoin(dir, input_name_prefix \o suffix \o <<".","p","d","f">>)

\* os.path.join(directory, "obsidian_recipes")
OutputDir(dir) == PathJoin(dir, <<"o","b","s","i","d","i","a","n","_","r","e","c","i","p","e","s">>)

\* the positions of x where r"Part(\d+)" matches
PartNumberAt(x) ==
    {k \in 1..Len(x) : OccursAt(x, <<"P","a","r","t">>, k) /\ k + 4 <= Len(x) /\ IsDigit(x[k + 4])}

\* re.search(r"Part(\d+)", x) is None, so that the sort key raises AttributeError
SortKeyRaises(x) == PartNumberAt(x) = {}

\* the sort key int(re.search(r"Part(\d+)", x).group(1)), for a path it finds
\* a number in
SortKey(x) ==
    LET k == Min(PartNumberAt(x))
    IN  StrToInt(SubSeq(x, k + 4, DigitRunEnd(x, k + 4)))

\* x put into a list sorted by key, behind the entries whose key is not greater
InsertByKey(sorted, x) ==
    LET before == {k \in 1..Len(sorted) : SortKey(sorted[k]) <= SortKey(x)}
        n == IF before = {} THEN 0 ELSE Max(before)
    IN  SubSeq(sorted, 1, n) \o <<x>> \o SubSeq(sorted, n + 1, Len(sorted))

\* list.sort(key=...): stable, ascending by key
RECURSIVE SortedByKey(_)
SortedByKey(list) ==
    IF list = <<>> THEN <<>>
    ELSE InsertByKey(SortedByKey(SubSeq(list, 1, Len(list) - 1)), list[Len(list)])

\* what a backend does with a file: it raises, or returns text
Raising == [raises |-> TRUE, text |-> <<>>]
Returning(t) == [raises |-> FALSE, text |-> t]

ErrorPyMuPDF == "ERROR Error extracting text with PyMuPDF"
ErrorPyPDF2 == "ERROR Error extracting text with PyPDF2"
InfoProcessing == "INFO Processing"
WarningNoText == "WARNING No text extracted"
InfoCreated == "INFO Created"
ErrorProcessing == "ERROR Error processing"

\* extract_text_from_pdf: the text returned and what was logged, given the
\* library imported and what each backend does with the file.  With PyMuPDF
\* imported the name PyPDF2 is unbound, so the fallback block raises NameError,
\* which its except clause catches like any other exception.
extract_text_from_pdf(library, fitz_result, pypdf2_result) ==
    IF library = "PyMuPDF" /\ ~fitz_result.raises
    THEN [text |-> fitz_result.text, logged |-> <<>>]
    ELSE LET first == IF library = "PyMuPDF" THEN <<ErrorPyMuPDF>> ELSE <<>>
         IN  IF library = "PyMuPDF" \/ pypdf2_result.raises
             THEN [text |-> <<>>, logged |-> first \o <<ErrorPyPDF2>>]
             ELSE [text |-> pypdf2_result.text, logged |-> first]

\* mutant: the document is never skipped
NoTextExtractedIgnored(t) == FALSE

\* "if not text"
NoTextExtracted(t) == t = <<>>

\* the title process_pdf_file gives a record whose title is empty
FallbackTitle(pdf_path) ==
    Replace(SplitExtRoot(Basename(pdf_path)), input_name_prefix, <<"R","e","c","i","p","e"," ">>)

\* the record process_pdf_file renders: the parsed one, its title filled in
RecordOf(t, pdf_path) ==
    LET rd == parse_recipe_data(t)
    IN  IF rd.title = <<>> THEN [rd EXCEPT !.title = FallbackTitle(pdf_path)] ELSE rd

\* the paths of the files of the output directory
Paths(files) == {f.path : f \in files}

\* the duplicate loop of process_pdf_file, from its counter on
RECURSIVE FreePathFrom(_, _, _, _)
FreePathFrom(files, original_output_path, output_path, counter) ==
    IF output_path \in Paths(files)
    THEN FreePathFrom(files, original_output_path,
                      SplitExtRoot(original_output_path) \o <<"_">> \o IntToStr(counter) \o <<".","m","d">>,
                      counter + 1)
    ELSE output_path

\* mutant: the path is used whether or not it exists
OutputPathUnchecked(files, original_output_path) == original_output_path

\* the path process_pdf_file writes to: the first one that does not exist
OutputPath(files, original_output_path) ==
    FreePathFrom(files, original_output_path, original_output_path, 1)

\* open(path, "w").write(content): the file is created or replaced
WriteFile(files, path, content) ==
    {f \in files : f.path # path} \cup {[path |-> path, content |-> content]}

----
(* Specification of sanitize_filename applied twice to a title. *)

\* the longest title drawn character by character
MaxTitleLen == 4

TitleAlphabet == {"a", "B", "7", "_", " ", "-"}

RECURSIVE SeqsUpTo(_, _)
SeqsUpTo(S, n) ==
    IF n = 0 THEN {<<>>}
    ELSE LET shorter == SeqsUpTo(S, n - 1)
         IN  shorter \cup {Append(s, c) : s \in {x \in shorter : Len(x) = n - 1}, c \in S}

RECURSIVE Repeat(_, _)
Repeat(s, n) == IF n = 0 THEN <<>> ELSE s \o Repeat(s, n - 1)

\* titles around the length limit: 48..52 characters, with spaces and punctuation
LongTitles ==
    {Slice(Repeat(p, 30), 0, n) : p \in {<<"a","b"," ">>, <<"a">>, <<"a","-","b","_"," ">>, <<"x","?","y"," ">>}, n \in 48..52}

Titles == SeqsUpTo(TitleAlphabet, MaxTitleLen) \cup LongTitles \cup {<<"a","/","b",":"," ","c","?">>, <<"W","h","a","t","'","s"," ","u","p",","," ","d","o","c","?">>}

\* the output directory does not exist
NoOutputDir == [exists |-> FALSE, files |-> {}]

\* the batch is not running
IdleBatch ==
    /\ PDF_LIBRARY = None /\ directory = None /\ listing = <<>> /\ pdf_files = <<>>
    /\ cur = 0 /\ successful = 0 /\ failed = 0 /\ fs = NoOutputDir /\ log = <<>>

InitSanitize ==
    /\ pc = "sanitize"
    /\ title \in Titles
    /\ sanitized = None /\ resanitized = None
    /\ doc = None /\ text = None /\ recipe_data = None /\ tags = None /\ markdown = None
    /\ IdleBatch

Sanitize ==
    /\ pc = "sanitize"
    /\ sanitized' = sanitize_filename(title)
    /\ pc' = "resanitize"
    /\ UNCHANGED <<batchVars, doc, text, recipe_data, tags, markdown, title, resanitized>>

Resanitize ==
    /\ pc = "resanitize"
    /\ resanitized' = sanitize_filename(sanitized)
    /\ pc' = "sanitized"
    /\ UNCHANGED <<batchVars, doc, text, recipe_data, tags, markdown, title, sanitized>>

NextSanitize == Sanitize \/ Resanitize

SpecSanitize == InitSanitize /\ [][NextSanitize]_vars

\* the titles C9 is about: at most 50 characters, word characters, spaces, hyphens
PlainTitle(t) ==
    /\ Len(t) <= MaxFilenameLen
    /\ \A k \in 1..Len(t) : IsWord(t[k]) \/ t[k] = " " \/ t[k] = "-"

\* C9: sanitize_filename is idempotent on titles of at most 50 characters made of
\* word characters, spaces and hyphens: sanitizing the sanitized title returns it.
C9_SanitizeIdempotent ==
    (pc = "sanitized" /\ PlainTitle(title)) => resanitized = sanitized

\* a title with inner and outer spaces has been sanitized twice
C9_Witness ==
    /\ pc = "sanitized" /\ PlainTitle(title)
    /\ title = <<" ","a"," ","B">> /\ sanitized = <<"a","_","B">> /\ resanitized = <<"a","_","B">>

----
(* Specification of generate_tags applied to a record. *)

\* how far around each threshold the calories and the protein are drawn
ThresholdWindow == 1

Around(n) == {IntToStr(v) : v \in (n - ThresholdWindow)..(n + ThresholdWindow)}

CalorieSamples ==
    {<<>>, <<"0">>, <<"0","3","0","0">>} \cup Around(LowCalorieLimit) \cup Around(HighCalorieLimit)

ProteinSamples == {<<>>} \cup Around(HighProteinLimit)

TagRecords ==
    [title : {<<>>, <<"P","l","a","i","n"," ","O","a","t","s">>, <<"T","u","r","k","e","y"," ","B","o","w","l">>},
     calories : CalorieSamples,
     protein : ProteinSamples,
     ingredients : {<<>>, <<<<"w","a","t","e","r">>>>, <<<<"2"," ","e","g","g","s">>, <<"H","a","m">>>>},
     directions : {<<>>, <<<<"S","t","i","r">>, <<"S","e","r","v","e">>>>},
     pro_tips : {<<>>}]

InitTags ==
    /\ pc = "generate_tags"
    /\ recipe_data \in TagRecords
    /\ tags = None
    /\ doc = None /\ text = None /\ markdown = None
    /\ title = None /\ sanitized = None /\ resanitized = None
    /\ IdleBatch

GenerateTags ==
    /\ pc = "generate_tags"
    /\ tags' = generate_tags(recipe_data)
    /\ pc' = "tagged"
    /\ UNCHANGED <<batchVars, doc, text, recipe_data, markdown, title, sanitized, resanitized>>

NextTags == GenerateTags

SpecTags == InitTags /\ [][NextTags]_vars

\* a keyword of the taxonomy occurs in the title, the ingredients or the directions
SomeKeywordMatches(rd) ==
    \E k \in 1..Len(ingredient_tags) : \E w \in 1..Len(ingredient_tags[k][2]) :
        Contains(AllText(rd), ingredient_tags[k][2][w])

\* a calorie or protein threshold rule fires
SomeThresholdFires(rd) ==
    \/ rd.calories # <<>> /\ (StrToInt(rd.calories) < 300 \/ StrToInt(rd.calories) > 500)
    \/ rd.protein # <<>> /\ StrToInt(rd.protein) > 40

\* C5: generate_tags never returns an empty list; the result is exactly
\* ["recipe"] when no keyword matches and no threshold rule fires, and the
\* sentinel recipe is in the result only then.
C5_TagsNeverEmpty ==
    pc = "tagged" =>
        /\ tags # <<>>
        /\ (~SomeKeywordMatches(recipe_data) /\ ~SomeThresholdFires(recipe_data))
               => tags = <<<<"r","e","c","i","p","e">>>>
        /\ <<"r","e","c","i","p","e">> \in Range(tags)
               => (~SomeKeywordMatches(recipe_data) /\ ~SomeThresholdFires(recipe_data))

\* a record on both boundaries, where no rule fires, got the sentinel alone
C5_Witness ==
    /\ pc = "tagged"
    /\ recipe_data.title = <<"P","l","a","i","n"," ","O","a","t","s">> /\ recipe_data.ingredients = <<<<"w","a","t","e","r">>>>
    /\ recipe_data.calories = <<"3","0","0">> /\ recipe_data.protein = <<"4","0">>
    /\ tags = <<<<"r","e","c","i","p","e">>>>

\* C6: with calories present, lowcalorie is a tag exactly when calories < 300
\* and highcalorie exactly when calories > 500; 300..500 gives neither, and the
\* two are never both tags.
C6_CalorieThresholds ==
    (pc = "tagged" /\ recipe_data.calories # <<>>) =>
        LET calories == StrToInt(recipe_data.calories)
            low == <<"l","o","w","c","a","l","o","r","i","e">> \in Range(tags)
            high == <<"h","i","g","h","c","a","l","o","r","i","e">> \in Range(tags)
        IN  /\ low <=> calories < 300
            /\ high <=> calories > 500
            /\ (300 <= calories /\ calories <= 500) => (~low /\ ~high)
            /\ ~(low /\ high)

\* records with 299, 300 and 501 calories have been tagged
C6_Witness ==
    /\ pc = "tagged"
    /\ recipe_data.calories = <<"2","9","9">>
    /\ <<"l","o","w","c","a","l","o","r","i","e">> \in Range(tags) /\ <<"h","i","g","h","c","a","l","o","r","i","e">> \notin Range(tags)

----
(* Specification of create_markdown applied to a record. *)

\* the longest list of directions drawn
MaxDirections == 11

StepNames == <<"a","b","c","d","e","f","g","h","i","j","k","l","m","n","o","p","q","r","s","t","u","v","w","x","y","z">>

\* n directions, each a different text
Steps(n) == [k \in 1..n |-> <<"S","t","e","p"," ">> \o <<StepNames[((k - 1) % 26) + 1]>>]

RenderRecords ==
    [title : {<<>>, <<"O","a","t"," ","B","o","w","l">>},
     calories : {<<>>, <<"3","5","0">>},
     protein : {<<>>, <<"2","8">>},
     ingredients : {<<>>, <<<<"2"," ","e","g","g","s">>>>, <<<<"2"," ","e","g","g","s">>, <<"1"," ","c","u","p"," ","o","a","t","s">>>>},
     directions : {Steps(n) : n \in 0..MaxDirections},
     pro_tips : {<<>>, <<<<"U","s","e"," ","r","i","p","e"," ","f","r","u","i","t">>, <<"C","h","i","l","l">>>>}]

InitRender ==
    /\ pc = "create_markdown"
    /\ recipe_data \in RenderRecords
    /\ tags = None /\ markdown = None
    /\ doc = None /\ text = None
    /\ title = None /\ sanitized = None /\ resanitized = None
    /\ IdleBatch

CreateMarkdown ==
    /\ pc = "create_markdown"
    /\ tags' = generate_tags(recipe_data)
    /\ markdown' = create_markdown(recipe_data)
    /\ pc' = "rendered"
    /\ UNCHANGED <<batchVars, doc, text, recipe_data, title, sanitized, resanitized>>

NextRender == CreateMarkdown

SpecRender == InitRender /\ [][NextRender]_vars

\* the lines of a section of the note: its heading, a blank line, its items, a
\* blank line; nothing when the section has no item
SectionLines(heading, items) ==
    IF items = <<>> THEN <<>> ELSE <<heading, <<>>>> \o items \o << <<>> >>

\* the lines C8 describes for a record and its tags
ExpectedLines(rd, tagList) ==
    << <<"#"," ">> \o rd.title, <<>>, Join(<<" ">>, [k \in 1..Len(tagList) |-> <<"#">> \o tagList[k]]), <<>> >>
    \o SectionLines(<<"#","#"," ","N","u","t","r","i","t","i","o","n"," ","I","n","f","o","r","m","a","t","i","o","n">>,
           (IF rd.calories # <<>> THEN <<<<"-"," ","*","*","C","a","l","o","r","i","e","s",":","*","*"," ">> \o rd.calories>> ELSE <<>>)
           \o (IF rd.protein # <<>> THEN <<<<"-"," ","*","*","P","r","o","t","e","i","n",":","*","*"," ">> \o rd.protein \o <<"g">>>> ELSE <<>>))
    \o SectionLines(<<"#","#"," ","I","n","g","r","e","d","i","e","n","t","s">>,
           [k \in 1..Len(rd.ingredients) |-> <<"-"," ">> \o rd.ingredients[k]])
    \o SectionLines(<<"#","#"," ","D","i","r","e","c","t","i","o","n","s">>,
           [k \in 1..Len(rd.directions) |-> IntToStr(k) \o <<"."," ">> \o rd.directions[k]])
    \o SectionLines(<<"#","#"," ","P","r","o"," ","T","i","p","s">>,
           [k \in 1..Len(rd.pro_tips) |-> <<"-"," ">> \o rd.pro_tips[k]])

\* C8: the note is the heading "# title", a blank line, the tag line, a blank
\* line, then the sections Nutrition Information, Ingredients, Directions and
\* Pro Tips in that order, each present exactly when its data is, the directions
\* numbered 1..N, each section followed by exactly one blank line.  Every line
\* ends with a line break, so splitting at line breaks leaves one final empty
\* piece.
C8_MarkdownStructure ==
    pc = "rendered" =>
        Split(markdown, "\n") = ExpectedLines(recipe_data, tags) \o << <<>> >>

\* a record with every section and more than nine directions has been rendered
C8_Witness ==
    /\ pc = "rendered"
    /\ recipe_data.calories # <<>> /\ recipe_data.ingredients # <<>>
    /\ Len(recipe_data.directions) = 11 /\ recipe_data.pro_tips # <<>>
    /\ Contains(markdown, <<"\n","1","1","."," ","S","t","e","p"," ","k","\n","\n","#","#"," ","P","r","o"," ","T","i","p","s","\n","\n","-"," ","U","s","e"," ","r","i","p","e"," ","f","r","u","i","t","\n","-"," ","C","h","i","l","l","\n","\n">>)

----
(* Specification of parse_recipe_data applied to the text of a document that *)
(* has its sections laid out under the markers Ingredients, Directions and   *)
(* PRO TIP.                                                                  *)

Documents ==
    {d \in [heading : {<<>>, <<"T","u","r","k","e","y"," ","B","a","c","o","n"," ","B","r","e","a","k","f","a","s","t"," ","B","u","r","r","i","t","o">>},
            nutrition : {<<"3","5","0"," ","c","a","l","o","r","i","e","s"," ","2","8"," ","g","r","a","m","s"," ","o","f"," ","p","r","o","t","e","i","n">>},
            ingredients : {<<<<"s","a","l","t">>>>, <<<<"2"," ","e","g","g","s">>>>, <<<<"2"," ","e","g","g","s">>, <<"2"," ","t","u","r","k","e","y"," ","b","a","c","o","n"," ","s","t","r","i","p","s">>>>,
                           <<<<"s","a","l","t">>, <<"p","e","p","p","e","r">>, <<"o","l","i","v","e"," ","o","i","l">>>>},
            directions : {<<<<"C","o","o","k"," ","b","a","c","o","n">>>>, <<<<"C","o","o","k"," ","b","a","c","o","n">>, <<"S","c","r","a","m","b","l","e"," ","e","g","g","s">>>>},
            pro_tips : {<<>>, <<<<"U","s","e"," ","l","o","w","-","s","o","d","i","u","m"," ","b","a","c","o","n">>>>,
                        <<<<"U","s","e"," ","l","o","w","-","s","o","d","i","u","m"," ","b","a","c","o","n">>, <<"S","e","r","v","e"," ","h","o","t">>>>},
            tips_marker : {<<"P","R","O"," ","T","I","P">>, <<"P","R","O"," ","T","I","P","S">>},
            tips_numbered : BOOLEAN,
            bullet : {<<>>, <<"-"," ">>},
            sep : {<<" ">>, NL}] :
        \* several tips are told apart by their numbers
        /\ Len(d.pro_tips) # 1 => d.tips_numbered
        /\ d.pro_tips = <<>> => d.tips_marker = <<"P","R","O"," ","T","I","P">>}

\* the text of a document: its parts in order, separated by d.sep
Layout(d) ==
    Join(d.sep,
         (IF d.heading = <<>> THEN <<>> ELSE <<d.heading>>)
         \o <<d.nutrition, <<"I","n","g","r","e","d","i","e","n","t","s">>>>
         \o [k \in 1..Len(d.ingredients) |-> d.bullet \o d.ingredients[k]]
         \o <<<<"D","i","r","e","c","t","i","o","n","s">>>>
         \o [k \in 1..Len(d.directions) |-> IntToStr(k) \o <<"."," ">> \o d.directions[k]]
         \o (IF d.pro_tips = <<>> THEN <<>>
             ELSE <<d.tips_marker>>
                  \o [k \in 1..Len(d.pro_tips) |->
                         (IF d.tips_numbered THEN IntToStr(k) \o <<"."," ">> ELSE <<>>)
                         \o d.pro_tips[k]]))

InitParse ==
    /\ pc = "parse_recipe_data"
    /\ doc \in Documents
    /\ text = Layout(doc)
    /\ recipe_data = None
    /\ tags = None /\ markdown = None
    /\ title = None /\ sanitized = None /\ resanitized = None
    /\ IdleBatch

ParseRecipeData ==
    /\ pc = "parse_recipe_data"
    /\ recipe_data' = parse_recipe_data(text)
    /\ pc' = "parsed"
    /\ UNCHANGED <<batchVars, doc, text, tags, markdown, title, sanitized, resanitized>>

NextParse == ParseRecipeData

SpecParse == InitParse /\ [][NextParse]_vars

\* C7: for a text with an Ingredients marker followed by a Directions marker,
\* the record holds the ingredient entries as separate elements in document
\* order and the numbered steps as separate elements in step order, prefixes
\* stripped, no element empty.
C7_SectionsSplit ==
    pc = "parsed" =>
        /\ recipe_data.ingredients = doc.ingredients
        /\ recipe_data.directions = doc.directions

\* C10: for a text with a PRO TIP or PRO TIPS marker followed by tip text, the
\* record holds the tips in source order, numbering stripped; a single tip
\* without a number gives exactly one entry.
C10_ProTipsKept ==
    (pc = "parsed" /\ doc.pro_tips # <<>>) => recipe_data.pro_tips = doc.pro_tips

\* the directions of every laid out document are returned step by step
ParsedDirectionsInOrder == pc = "parsed" => recipe_data.directions = doc.directions

\* numbered tips are returned tip by tip
ParsedNumberedTips ==
    (pc = "parsed" /\ doc.tips_numbered) => recipe_data.pro_tips = doc.pro_tips

----
(* Specification of process_all_pdfs on a directory, one step per stage of   *)
(* process_pdf_file.                                                         *)

\* the most input files a directory holds
MaxFiles == 3

\* what the names of the input files have where the pattern has *
Suffixes == {<<"1">>, <<"2">>, <<"1","0">>, <<"x">>}

Directories == {<<"/","w">>, <<"/","P","a","r","t","7">>}

\* the texts a backend extracts
BatchTexts == {<<"O","a","t"," ","B","o","w","l">>, <<"O","a","t"," ","B","o","w","l"," ","1">>, <<"1","2">>}

BackendResults == {Raising, Returning(<<>>)} \cup {Returning(t) : t \in BatchTexts}

\* glob.glob returns the matching files in any order
Listings(dir) ==
    {[k \in 1..Len(s) |-> PdfPath(dir, s[k])] :
        s \in {q \in SeqsUpTo(Suffixes, MaxFiles) :
                  \A a, b \in 1..Len(q) : a # b => q[a] # q[b]}}

\* the output directory before the run: absent, empty, or holding an older note
OutputsBefore(dir) ==
    {NoOutputDir,
     [exists |-> TRUE, files |-> {}],
     [exists |-> TRUE,
      files |-> {[path |-> PathJoin(OutputDir(dir), <<"O","a","t","_","B","o","w","l",".","m","d">>), content |-> <<"o","l","d">>]}]}

Init ==
    /\ pc = "start"
    /\ PDF_LIBRARY \in {"PyMuPDF", "PyPDF2"}
    /\ directory \in Directories
    /\ listing \in Listings(directory)
    /\ fs \in OutputsBefore(directory)
    /\ pdf_files = <<>> /\ cur = 0 /\ successful = 0 /\ failed = 0 /\ log = <<>>
    /\ doc = None /\ text = None /\ recipe_data = None /\ tags = None /\ markdown = None
    /\ title = None /\ sanitized = None /\ resanitized = None

locals == <<doc, text, recipe_data, tags, markdown, title, sanitized, resanitized>>

\* process_all_pdfs up to its loop: glob, sort, makedirs.  A key that finds no
\* number raises out of process_all_pdfs.
Discover ==
    /\ pc = "start"
    /\ IF listing = <<>>
       THEN /\ pc' = "no_input"
            /\ UNCHANGED <<pdf_files, fs>>
       ELSE IF \E k \in 1..Len(listing) : SortKeyRaises(listing[k])
       THEN /\ pc' = "raised"
            /\ pdf_files' = listing
            /\ UNCHANGED fs
       ELSE /\ pc' = "loop"
            /\ pdf_files' = SortedByKey(listing)
            /\ fs' = [fs EXCEPT !.exists = TRUE]
    /\ UNCHANGED <<PDF_LIBRARY, directory, listing, cur, successful, failed, log, locals>>

\* the for statement: the next document begins, or the batch is complete
Loop ==
    /\ pc = "loop"
    /\ IF cur < Len(pdf_files)
       THEN /\ cur' = cur + 1
            /\ log' = <<InfoProcessing>>
            /\ pc' = "extract"
       ELSE /\ pc' = "done"
            /\ UNCHANGED <<cur, log>>
    /\ text' = None /\ recipe_data' = None /\ tags' = None /\ markdown' = None
    /\ sanitized' = None
    /\ UNCHANGED <<PDF_LIBRARY, directory, listing, pdf_files, successful, failed, fs,
                   doc, title, resanitized>>

\* process_pdf_file returns False and process_all_pdfs counts it
ReturnFalse(logged) ==
    /\ log' = log \o logged
    /\ failed' = failed + 1
    /\ pc' = "loop"
    /\ UNCHANGED <<successful, fs>>

\* process_pdf_file, "Extract text"
ExtractText ==
    /\ pc = "extract"
    /\ \E fitz_result \in BackendResults, pypdf2_result \in BackendResults :
          LET got == extract_text_from_pdf(PDF_LIBRARY, fitz_result, pypdf2_result)
          IN  /\ text' = got.text
              /\ IF NoTextExtracted(got.text)
                 THEN ReturnFalse(got.logged \o <<WarningNoText>>)
                 ELSE /\ log' = log \o got.logged
                      /\ pc' = "parse"
                      /\ UNCHANGED <<successful, failed, fs>>
    /\ UNCHANGED <<PDF_LIBRARY, directory, listing, pdf_files, cur,
                   doc, recipe_data, tags, markdown, title, sanitized, resanitized>>

\* process_pdf_file, "Parse recipe data", with the fallback title; an exception
\* ends in the except clause of process_pdf_file
ParseText ==
    /\ pc = "parse"
    /\ \E raised \in BOOLEAN :
          IF raised
          THEN ReturnFalse(<<ErrorProcessing>>) /\ UNCHANGED recipe_data
          ELSE /\ recipe_data' = RecordOf(text, pdf_files[cur])
               /\ pc' = "render"
               /\ UNCHANGED <<successful, failed, fs, log>>
    /\ UNCHANGED <<PDF_LIBRARY, directory, listing, pdf_files, cur,
                   doc, text, tags, markdown, title, sanitized, resanitized>>

\* process_pdf_file, "Create markdown"
Render ==
    /\ pc = "render"
    /\ \E raised \in BOOLEAN :
          IF raised
          THEN ReturnFalse(<<ErrorProcessing>>) /\ UNCHANGED <<tags, markdown>>
          ELSE /\ tags' = generate_tags(recipe_data)
               /\ markdown' = create_markdown(recipe_data)
               /\ pc' = "write"
               /\ UNCHANGED <<successful, failed, fs, log>>
    /\ UNCHANGED <<PDF_LIBRARY, directory, listing, pdf_files, cur,
                   doc, text, recipe_data, title, sanitized, resanitized>>

\* process_pdf_file, "Save to file": the name, the duplicate loop, the write
Write ==
    /\ pc = "write"
    /\ sanitized' = sanitize_filename(recipe_data.title)
    /\ \E raised \in BOOLEAN :
          IF raised
          THEN ReturnFalse(<<ErrorProcessing>>)
          ELSE LET original_output_path ==
                       PathJoin(OutputDir(directory), sanitized' \o <<".","m","d">>)
               IN  /\ fs' = [fs EXCEPT !.files = WriteFile(fs.files,
                                        OutputPath(fs.files, original_output_path), markdown)]
                   /\ log' = log \o <<InfoCreated>>
                   /\ successful' = successful + 1
                   /\ pc' = "loop"
                   /\ UNCHANGED failed
    /\ UNCHANGED <<PDF_LIBRARY, directory, listing, pdf_files, cur,
                   doc, text, recipe_data, tags, markdown, title, resanitized>>

Next == Discover \/ Loop \/ ExtractText \/ ParseText \/ Render \/ Write

Spec == Init /\ [][Next]_vars

\* a document is in hand
InProcess == pc \in {"extract", "parse", "render", "write"}

\* C1: whatever fails in which document, process_all_pdfs processes every
\* discovered document, no exception leaves it, every document is counted
\* once as successful or failed, and at the end successful + failed = N.
C1_BatchCompletes ==
    /\ pc # "raised"
    /\ pc = "loop" => successful + failed = cur
    /\ InProcess => successful + failed = cur - 1
    /\ pc = "done" => (cur = Len(listing) /\ successful + failed = Len(listing))

\* once the loop is entered the tally follows the documents, whatever fails
BatchLoopTally ==
    /\ pc = "loop" => successful + failed = cur
    /\ InProcess => successful + failed = cur - 1
    /\ pc = "done" => (cur = Len(listing) /\ successful + failed = Len(listing))

\* C2: a successful process_pdf_file overwrites nothing: every file stays as it
\* was and exactly one file is created, at the sanitized name when that is
\* free, else at the name with _counter before the extension for the first
\* counter from 1 on whose path is free (so _1 for the second of two records
\* with the same name).
C2_NoOverwrite ==
    [][(pc = "write" /\ successful' = successful + 1) =>
          LET base == PathJoin(OutputDir(directory), sanitized')
              Candidate(k) ==
                  IF k = 0 THEN base \o <<".","m","d">> ELSE base \o <<"_">> \o IntToStr(k) \o <<".","m","d">>
              created == fs'.files \ fs.files
          IN  /\ fs.files \subseteq fs'.files
              /\ Cardinality(created) = 1
              /\ Cardinality(Paths(fs'.files)) = Cardinality(fs'.files)
              /\ \A f \in created :
                    /\ f.content = markdown
                    /\ f.path \notin Paths(fs.files)
                    /\ \E k \in 0..Cardinality(fs.files) :
                          /\ f.path = Candidate(k)
                          /\ \A j \in 0..(k - 1) : Candidate(j) \in Paths(fs.files)]_vars

\* two documents with the title Oat Bowl were written into an empty directory:
\* the second note has the suffix _1
C2_Witness ==
    /\ pc = "loop" /\ successful = 2 /\ directory = <<"/","w">>
    /\ fs.files = {[path |-> <<"/","w","/","o","b","s","i","d","i","a","n","_","r","e","c","i","p","e","s","/","O","a","t","_","B","o","w","l",".","m","d">>,
                    content |-> <<"#"," ","O","a","t"," ","B","o","w","l","\n","\n","#","s","a","l","a","d","\n","\n">>],
                   [path |-> <<"/","w","/","o","b","s","i","d","i","a","n","_","r","e","c","i","p","e","s","/","O","a","t","_","B","o","w","l","_","1",".","m","d">>,
                    content |-> <<"#"," ","O","a","t"," ","B","o","w","l","\n","\n","#","s","a","l","a","d","\n","\n">>]}

\* C3: when the extraction fails or gives no text, the adapter returns empty
\* text, process_pdf_file skips the document without parsing, rendering or
\* writing (the files are unchanged), the document is counted as failed, and
\* the loop goes on with the next document.
C3_EmptyTextSkipped ==
    [][/\ pc = "extract" =>
             /\ ErrorPyPDF2 \in Range(log') => text' = <<>>
             /\ text' = <<>> =>
                   /\ pc' = "loop"
                   /\ log'[Len(log')] = WarningNoText
                   /\ failed' = failed + 1 /\ successful' = successful
                   /\ fs' = fs
                   /\ recipe_data' = None /\ markdown' = None
                   /\ cur' = cur /\ pdf_files' = pdf_files
       /\ (pc = "loop" /\ cur < Len(pdf_files)) => (pc' = "extract" /\ cur' = cur + 1)]_vars

\* PyMuPDF raised on the first of several documents, the fallback raised too,
\* and the document was skipped
C3_Witness ==
    /\ pc = "loop" /\ cur = 1 /\ Len(pdf_files) > 1
    /\ text = <<>> /\ failed = 1 /\ successful = 0
    /\ log = <<InfoProcessing, ErrorPyMuPDF, ErrorPyPDF2, WarningNoText>>

\* the file name of a path holds a number after Part
HasNameIndex(path) == ~SortKeyRaises(Basename(path))

\* the numeric Part index in the file name of a path
NameIndex(path) == SortKey(Basename(path))

\* C4: the documents are processed one at a time in ascending order of the
\* numeric Part index in the file name.
C4_AscendingPartOrder ==
    \A a, b \in 1..cur :
        (a < b /\ HasNameIndex(pdf_files[a]) /\ HasNameIndex(pdf_files[b]))
            => NameIndex(pdf_files[a]) <= NameIndex(pdf_files[b])

\* where no directory name holds a number after Part, the order is ascending
AscendingWithoutPartDirectory ==
    directory = <<"/","w">> =>
        \A a, b \in 1..Len(pdf_files) :
            (a < b /\ pc # "raised") => NameIndex(pdf_files[a]) <= NameIndex(pdf_files[b])

====
